---- MODULE Spec2Model ----
(***************************************************************************)
(* GridPath module resolution: gridpath/auxiliary/module_list.py.          *)
(*                                                                         *)
(* The catalog functions are sequences (Python lists, and dicts in their   *)
(* insertion order); determine_modules is computed the way the code        *)
(* computes it: a working copy of the canonical list from which            *)
(* list.remove() deletes rule by rule, a removal of an absent element      *)
(* raising ValueError and ending the call.                                 *)
(***************************************************************************)
EXTENDS FiniteSets, Integers, Sequences, TLC

(***************************************************************************)
(* Bounds of the model.                                                    *)
(***************************************************************************)
\* requested-feature lists differ from the empty or from the full list of
\* known features in at most this many features
MaxRequested == 1
\* integer-named subproblem directories below a scenario directory
MaxSubproblems == 2
\* integer-named stage directories below a subproblem directory
MaxStages == 1
\* determine_modules calls of one process
MaxCalls == 3
\* the most modules of the catalog that the installed package may lack
MaxMissing == 1
\* the most modules of the package that may lack lifecycle functions
MaxLacking == 1
\* the number of lifecycle phases of a run
MaxPhases == 3
\* the most horizons of a temporal setup
MaxHorizons == 2
\* the most timepoints of a horizon
MaxTimepoints == 3
\* the longest timepoint, in hours
MaxHours == 2
\* the longest travel time of a water link, in hours
MaxTravel == 4

(***************************************************************************)
(* Python values.  An optional argument is <<>> (None) or <<v>>.           *)
(***************************************************************************)
None == <<>>

Some(v) == <<v>>

(***************************************************************************)
(* The shipped catalog.                                                    *)
(***************************************************************************)
all_modules_list ==
  <<
    "temporal.operations.timepoints",
    "temporal.operations.horizons",
    "temporal.investment.periods",
    "geography.load_zones",
    "geography.load_following_up_balancing_areas",
    "geography.load_following_down_balancing_areas",
    "geography.regulation_up_balancing_areas",
    "geography.regulation_down_balancing_areas",
    "geography.frequency_response_balancing_areas",
    "geography.spinning_reserves_balancing_areas",
    "geography.energy_target_zones",
    "geography.carbon_cap_zones",
    "geography.carbon_tax_zones",
    "geography.prm_zones",
    "geography.local_capacity_zones",
    "geography.markets",
    "system.load_balance.static_load_requirement",
    "system.reserves.requirement.lf_reserves_up",
    "system.reserves.requirement.lf_reserves_down",
    "system.reserves.requirement.regulation_up",
    "system.reserves.requirement.regulation_down",
    "system.reserves.requirement.frequency_response",
    "system.reserves.requirement.spinning_reserves",
    "system.policy.energy_targets.period_energy_target",
    "system.policy.energy_targets.horizon_energy_target",
    "system.policy.carbon_cap.carbon_cap",
    "system.policy.carbon_tax.carbon_tax",
    "system.reliability.prm.prm_requirement",
    "system.reliability.local_capacity.local_capacity_requirement",
    "system.markets.prices",
    "project",
    "project.capacity",
    "project.capacity.capacity_types",
    "project.capacity.capacity",
    "project.capacity.capacity_groups",
    "project.capacity.costs",
    "project.availability.availability",
    "project.fuels",
    "project.operations",
    "project.operations.reserves.lf_reserves_up",
    "project.operations.reserves.lf_reserves_down",
    "project.operations.reserves.regulation_up",
    "project.operations.reserves.regulation_down",
    "project.operations.reserves.frequency_response",
    "project.operations.reserves.spinning_reserves",
    "project.operations.operational_types",
    "project.operations.reserves.op_type_dependent.lf_reserves_up",
    "project.operations.reserves.op_type_dependent.lf_reserves_down",
    "project.operations.reserves.op_type_dependent.regulation_up",
    "project.operations.reserves.op_type_dependent.regulation_down",
    "project.operations.reserves.op_type_dependent.frequency_response",
    "project.operations.reserves.op_type_dependent.spinning_reserves",
    "project.operations.power",
    "project.operations.fix_commitment",
    "project.operations.fuel_burn",
    "project.operations.costs",
    "project.operations.tuning_costs",
    "project.operations.energy_target_contributions",
    "project.operations.carbon_emissions",
    "project.operations.carbon_cap",
    "project.operations.carbon_tax",
    "project.reliability.prm",
    "project.reliability.prm.prm_types",
    "project.reliability.prm.prm_simple",
    "project.reliability.prm.elcc_surface",
    "project.reliability.prm.group_costs",
    "project.reliability.local_capacity",
    "project.reliability.local_capacity.local_capacity_contribution",
    "transmission",
    "transmission.capacity.capacity_types",
    "transmission.capacity.capacity",
    "transmission.operations.operational_types",
    "transmission.operations.operations",
    "transmission.operations.hurdle_costs",
    "transmission.operations.simultaneous_flow_limits",
    "transmission.operations.carbon_emissions",
    "system.load_balance.aggregate_project_power",
    "system.load_balance.aggregate_transmission_power",
    "transmission.operations.export_penalty_costs",
    "system.load_balance.market_participation",
    "system.load_balance.load_balance",
    "system.reserves.aggregation.lf_reserves_up",
    "system.reserves.aggregation.regulation_up",
    "system.reserves.aggregation.lf_reserves_down",
    "system.reserves.aggregation.regulation_down",
    "system.reserves.aggregation.frequency_response",
    "system.reserves.aggregation.spinning_reserves",
    "system.reserves.balance.lf_reserves_up",
    "system.reserves.balance.regulation_up",
    "system.reserves.balance.lf_reserves_down",
    "system.reserves.balance.regulation_down",
    "system.reserves.balance.frequency_response",
    "system.reserves.balance.spinning_reserves",
    "system.policy.energy_targets.aggregate_period_energy_target_contributions",
    "system.policy.energy_targets.aggregate_horizon_energy_target_contributions",
    "system.policy.energy_targets.period_energy_target_balance",
    "system.policy.energy_targets.horizon_energy_target_balance",
    "system.policy.carbon_cap.aggregate_project_carbon_emissions",
    "system.policy.carbon_cap.aggregate_transmission_carbon_emissions",
    "system.policy.carbon_cap.carbon_balance",
    "system.policy.carbon_tax.aggregate_project_carbon_emissions",
    "system.policy.carbon_tax.carbon_tax_costs",
    "system.reliability.prm.aggregate_project_simple_prm_contribution",
    "system.reliability.prm.elcc_surface",
    "system.reliability.prm.prm_balance",
    "system.reliability.local_capacity.aggregate_local_capacity_contribution",
    "system.reliability.local_capacity.local_capacity_balance",
    "system.markets.volume",
    "objective.project.aggregate_capacity_costs",
    "objective.project.aggregate_prm_group_costs",
    "objective.project.aggregate_operational_costs",
    "objective.project.aggregate_operational_tuning_costs",
    "objective.transmission.aggregate_capacity_costs",
    "objective.transmission.aggregate_hurdle_costs",
    "objective.transmission.aggregate_export_penalty_costs",
    "objective.transmission.carbon_imports_tuning_costs",
    "objective.system.aggregate_load_balance_penalties",
    "objective.system.reserve_violation_penalties.lf_reserves_up",
    "objective.system.reserve_violation_penalties.lf_reserves_down",
    "objective.system.reserve_violation_penalties.regulation_up",
    "objective.system.reserve_violation_penalties.regulation_down",
    "objective.system.reserve_violation_penalties.frequency_response",
    "objective.system.reserve_violation_penalties.spinning_reserves",
    "objective.system.policy.aggregate_period_energy_target_violation_penalties",
    "objective.system.policy.aggregate_horizon_energy_target_violation_penalties",
    "objective.system.policy.aggregate_carbon_cap_violation_penalties",
    "objective.system.policy.aggregate_carbon_tax_costs",
    "objective.system.reliability.prm.dynamic_elcc_tuning_penalties",
    "objective.system.reliability.prm.aggregate_prm_violation_penalties",
    "objective.system.reliability.local_capacity.aggregate_local_capacity_violation_penalties",
    "objective.system.aggregate_market_revenue_and_costs",
    "objective.max_npv" >>

optional_modules_list ==
  <<
    [feature |-> "transmission",
     modules |-> <<
        "transmission",
        "transmission.capacity.capacity_types",
        "transmission.capacity.capacity",
        "transmission.operations.operational_types",
        "transmission.operations.operations",
        "system.load_balance.aggregate_transmission_power",
        "transmission.operations.export_penalty_costs",
        "objective.transmission.aggregate_capacity_costs",
        "objective.transmission.aggregate_export_penalty_costs" >>],
    [feature |-> "lf_reserves_up",
     modules |-> <<
        "geography.load_following_up_balancing_areas",
        "system.reserves.requirement.lf_reserves_up",
        "project.operations.reserves.lf_reserves_up",
        "project.operations.reserves.op_type_dependent.lf_reserves_up",
        "system.reserves.aggregation.lf_reserves_up",
        "system.reserves.balance.lf_reserves_up",
        "objective.system.reserve_violation_penalties.lf_reserves_up" >>],
    [feature |-> "lf_reserves_down",
     modules |-> <<
        "geography.load_following_down_balancing_areas",
        "system.reserves.requirement.lf_reserves_down",
        "project.operations.reserves.lf_reserves_down",
        "project.operations.reserves.op_type_dependent.lf_reserves_down",
        "system.reserves.aggregation.lf_reserves_down",
        "system.reserves.balance.lf_reserves_down",
        "objective.system.reserve_violation_penalties.lf_reserves_down" >>],
    [feature |-> "regulation_up",
     modules |-> <<
        "geography.regulation_up_balancing_areas",
        "system.reserves.requirement.regulation_up",
        "project.operations.reserves.regulation_up",
        "project.operations.reserves.op_type_dependent.regulation_up",
        "system.reserves.aggregation.regulation_up",
        "system.reserves.balance.regulation_up",
        "objective.system.reserve_violation_penalties.regulation_up" >>],
    [feature |-> "regulation_down",
     modules |-> <<
        "geography.regulation_down_balancing_areas",
        "system.reserves.requirement.regulation_down",
        "project.operations.reserves.regulation_down",
        "system.reserves.aggregation.regulation_down",
        "project.operations.reserves.op_type_dependent.regulation_down",
        "system.reserves.balance.regulation_down",
        "objective.system.reserve_violation_penalties.regulation_down" >>],
    [feature |-> "frequency_response",
     modules |-> <<
        "geography.frequency_response_balancing_areas",
        "system.reserves.requirement.frequency_response",
        "project.operations.reserves.frequency_response",
        "project.operations.reserves.op_type_dependent.frequency_response",
        "system.reserves.aggregation.frequency_response",
        "system.reserves.balance.frequency_response",
        "objective.system.reserve_violation_penalties.frequency_response" >>],
    [feature |-> "spinning_reserves",
     modules |-> <<
        "geography.spinning_reserves_balancing_areas",
        "system.reserves.requirement.spinning_reserves",
        "project.operations.reserves.spinning_reserves",
        "project.operations.reserves.op_type_dependent.spinning_reserves",
        "system.reserves.aggregation.spinning_reserves",
        "system.reserves.balance.spinning_reserves",
        "objective.system.reserve_violation_penalties.spinning_reserves" >>],
    [feature |-> "period_energy_target",
     modules |-> <<
        "system.policy.energy_targets.period_energy_target",
        "system.policy.energy_targets.aggregate_period_energy_target_contributions",
        "system.policy.energy_targets.period_energy_target_balance",
        "objective.system.policy.aggregate_period_energy_target_violation_penalties" >>],
    [feature |-> "horizon_energy_target",
     modules |-> <<
        "system.policy.energy_targets.horizon_energy_target",
        "system.policy.energy_targets.aggregate_horizon_energy_target_contributions",
        "system.policy.energy_targets.horizon_energy_target_balance",
        "objective.system.policy.aggregate_horizon_energy_target_violation_penalties" >>],
    [feature |-> "carbon_cap",
     modules |-> <<
        "geography.carbon_cap_zones",
        "system.policy.carbon_cap.carbon_cap",
        "project.operations.carbon_cap",
        "system.policy.carbon_cap.aggregate_project_carbon_emissions",
        "system.policy.carbon_cap.carbon_balance",
        "objective.system.policy.aggregate_carbon_cap_violation_penalties" >>],
    [feature |-> "carbon_tax",
     modules |-> <<
        "geography.carbon_tax_zones",
        "system.policy.carbon_tax.carbon_tax",
        "project.operations.carbon_tax",
        "system.policy.carbon_tax.aggregate_project_carbon_emissions",
        "system.policy.carbon_tax.carbon_tax_costs",
        "objective.system.policy.aggregate_carbon_tax_costs" >>],
    [feature |-> "prm",
     modules |-> <<
        "geography.prm_zones",
        "system.reliability.prm.prm_requirement",
        "project.reliability.prm",
        "project.reliability.prm.prm_types",
        "project.reliability.prm.prm_simple",
        "project.reliability.prm.group_costs",
        "system.reliability.prm.aggregate_project_simple_prm_contribution",
        "system.reliability.prm.prm_balance",
        "objective.project.aggregate_prm_group_costs",
        "objective.system.reliability.prm.aggregate_prm_violation_penalties" >>],
    [feature |-> "local_capacity",
     modules |-> <<
        "geography.local_capacity_zones",
        "system.reliability.local_capacity.local_capacity_requirement",
        "project.reliability.local_capacity",
        "project.reliability.local_capacity.local_capacity_contribution",
        "system.reliability.local_capacity.aggregate_local_capacity_contribution",
        "system.reliability.local_capacity.local_capacity_balance",
        "objective.system.reliability.local_capacity.aggregate_local_capacity_violation_penalties" >>],
    [feature |-> "markets",
     modules |-> <<
        "geography.markets",
        "system.markets.prices",
        "system.load_balance.market_participation",
        "system.markets.volume",
        "objective.system.aggregate_market_revenue_and_costs" >>],
    [feature |-> "tuning",
     modules |-> <<
        "project.operations.tuning_costs",
        "objective.project.aggregate_operational_tuning_costs" >>] >>

cross_feature_modules_list ==
  <<
    [features |-> <<"transmission", "transmission_hurdle_rates">>,
     modules |-> <<
        "transmission.operations.hurdle_costs",
        "objective.transmission.aggregate_hurdle_costs" >>],
    [features |-> <<"transmission", "carbon_cap", "track_carbon_imports">>,
     modules |-> <<
        "system.policy.carbon_cap.aggregate_transmission_carbon_emissions",
        "transmission.operations.carbon_emissions" >>],
    [features |-> <<"transmission", "carbon_cap", "track_carbon_imports", "tuning">>,
     modules |-> <<
        "objective.transmission.carbon_imports_tuning_costs" >>],
    [features |-> <<"transmission", "simultaneous_flow_limits">>,
     modules |-> <<
        "transmission.operations.simultaneous_flow_limits" >>],
    [features |-> <<"prm", "elcc_surface">>,
     modules |-> <<
        "project.reliability.prm.elcc_surface",
        "system.reliability.prm.elcc_surface" >>],
    [features |-> <<"prm", "elcc_surface", "tuning">>,
     modules |-> <<
        "objective.system.reliability.prm.dynamic_elcc_tuning_penalties" >>] >>

feature_shared_modules_list ==
  <<
    [features |-> <<"period_energy_target", "horizon_energy_target">>,
     modules |-> <<
        "geography.energy_target_zones",
        "project.operations.energy_target_contributions" >>] >>

\* the module determine_modules removes for a scenario without stages
fix_commitment == "project.operations.fix_commitment"

\* the shipped catalog after a module was dropped from all_modules_list()
\* and left in the rule that lists it
ShippedCatalogDroppedModule ==
  [all_modules |-> SelectSeq(all_modules_list,
                             LAMBDA m : m # "system.markets.volume"),
   optional    |-> optional_modules_list,
   shared      |-> feature_shared_modules_list,
   cross       |-> cross_feature_modules_list,
   sentinel    |-> fix_commitment]

\* the shipped catalog after a module was listed under a second feature
\* and left under its first
ShippedCatalogRelistedModule ==
  [all_modules |-> all_modules_list,
   optional    |-> optional_modules_list
                     \o << [feature |-> "market_volume",
                            modules |-> << "system.markets.volume" >>] >>,
   shared      |-> feature_shared_modules_list,
   cross       |-> cross_feature_modules_list,
   sentinel    |-> fix_commitment]

\* the shipped catalog after a module of a single-feature rule was also
\* listed under a new cross-feature rule
ShippedCatalogCrossListed ==
  [all_modules |-> all_modules_list,
   optional    |-> optional_modules_list,
   shared      |-> feature_shared_modules_list,
   cross       |-> cross_feature_modules_list
                     \o << [features |-> << "transmission", "markets" >>,
                            modules |-> << "system.markets.volume" >>] >>,
   sentinel    |-> fix_commitment]

ShippedCatalog ==
  [all_modules |-> all_modules_list,
   optional    |-> optional_modules_list,
   shared      |-> feature_shared_modules_list,
   cross       |-> cross_feature_modules_list,
   sentinel    |-> fix_commitment]

\* the catalog of the resolver's reference scenario: canonical order
\* m1..m10, A -> [m3, m5], B -> [m7], (A, B) -> [m9], sentinel m10
ScenarioCatalog ==
  [all_modules |-> << "m1", "m2", "m3", "m4", "m5",
                      "m6", "m7", "m8", "m9", "m10" >>,
   optional    |-> << [feature |-> "A", modules |-> << "m3", "m5" >>],
                      [feature |-> "B", modules |-> << "m7" >>] >>,
   shared      |-> << >>,
   cross       |-> << [features |-> << "A", "B" >>,
                       modules |-> << "m9" >>] >>,
   sentinel    |-> "m10"]

\* catalogs whose rules break the integrity the resolution relies on:
\* the sentinel not in the canonical list
SentinelUnlistedCatalog ==
  [ScenarioCatalog EXCEPT !.all_modules = SubSeq(@, 1, 9)]

\* the sentinel also under a single-feature rule
SentinelInRuleCatalog ==
  [ScenarioCatalog EXCEPT !.optional[2].modules = << "m7", "m10" >>]

\* an id under two single-feature rules
OptionalOverlapCatalog ==
  [ScenarioCatalog EXCEPT !.optional[2].modules = << "m7", "m5" >>]

\* an id under a single-feature rule and a shared-feature rule
SharedOverlapCatalog ==
  [ScenarioCatalog EXCEPT
     !.shared = << [features |-> << "A", "B" >>,
                    modules |-> << "m2", "m3" >>] >>]

\* an id under a single-feature rule and a cross-feature rule
CrossOverlapCatalog ==
  [ScenarioCatalog EXCEPT !.cross[1].modules = << "m9", "m7" >>]

\* a rule id that is not in the canonical list
UnlistedModuleCatalog ==
  [ScenarioCatalog EXCEPT !.optional[1].modules = << "m3", "m5", "m11" >>]

CatalogNames == { "shipped", "scenario" }

DefectiveCatalogNames ==
  { "sentinel_unlisted", "sentinel_in_rule", "optional_overlap",
    "shared_overlap", "cross_overlap", "unlisted_module" }

Catalog(name) ==
  CASE name = "shipped"           -> ShippedCatalog
    [] name = "scenario"          -> ScenarioCatalog
    [] name = "sentinel_unlisted" -> SentinelUnlistedCatalog
    [] name = "sentinel_in_rule"  -> SentinelInRuleCatalog
    [] name = "optional_overlap"  -> OptionalOverlapCatalog
    [] name = "shared_overlap"    -> SharedOverlapCatalog
    [] name = "cross_overlap"     -> CrossOverlapCatalog
    [] name = "unlisted_module"   -> UnlistedModuleCatalog

(***************************************************************************)
(* Python lists.                                                           *)
(***************************************************************************)
Range(l) == { l[i] : i \in 1..Len(l) }

\* x in l
Contains(l, x) == \E i \in 1..Len(l) : l[i] = x

\* l.index(x), for x in l
IndexOf(l, x) ==
  CHOOSE i \in 1..Len(l) : l[i] = x /\ \A j \in 1..(i - 1) : l[j] # x

\* l.remove(x) as a swap-remove: the last element takes the place of x
ListRemoveSwap(l, x) ==
  IF Contains(l, x)
  THEN LET i == IndexOf(l, x)
       IN  [raised |-> FALSE,
            list   |-> IF i = Len(l) THEN SubSeq(l, 1, i - 1)
                       ELSE SubSeq(l, 1, i - 1) \o << l[Len(l)] >>
                              \o SubSeq(l, i + 1, Len(l) - 1)]
  ELSE [raised |-> TRUE, list |-> l]

\* l.remove(x) as a discard: no exception when x is not in l
ListDiscard(l, x) ==
  IF Contains(l, x)
  THEN LET i == IndexOf(l, x)
       IN  [raised |-> FALSE,
            list   |-> SubSeq(l, 1, i - 1) \o SubSeq(l, i + 1, Len(l))]
  ELSE [raised |-> FALSE, list |-> l]

\* l.remove(x): deletes the first occurrence of x, raises ValueError when
\* x is not in l
ListRemove(l, x) ==
  IF Contains(l, x)
  THEN LET i == IndexOf(l, x)
       IN  [raised |-> FALSE,
            list   |-> SubSeq(l, 1, i - 1) \o SubSeq(l, i + 1, Len(l))]
  ELSE [raised |-> TRUE, list |-> l]

\* the text of the ValueError of list.remove.  A message is the sequence of
\* its parts: the literal texts and the values formatted into it
ValueErrorMessage == << "list.remove(x): x not in list" >>

\* frame of a running determine_modules call: the working list, the
\* exception that ended it ("" while none has) with its message, the
\* directories probed and the number of list.remove calls made
Frame(modules) ==
  [modules_to_use |-> modules, exception |-> "", message |-> << >>,
   probes |-> << >>, removals |-> 0]

\* modules_to_use.remove(m)
Remove(w, m) ==
  IF w.exception # "" THEN w
  ELSE LET r == ListRemove(w.modules_to_use, m)
       IN  IF r.raised
           THEN [w EXCEPT !.exception = "ValueError",
                          !.message = ValueErrorMessage,
                          !.removals = @ + 1]
           ELSE [w EXCEPT !.modules_to_use = r.list, !.removals = @ + 1]

\* the removal loop leaving after its first removal
RemoveEachFirstOnly(w, ms, i) ==
  IF w.exception # "" \/ Len(ms) = 0 THEN w ELSE Remove(w, ms[1])

\* for m in ms: modules_to_use.remove(m)
RECURSIVE RemoveEach(_, _, _)
RemoveEach(w, ms, i) ==
  IF w.exception # "" \/ i > Len(ms) THEN w
  ELSE RemoveEach(Remove(w, ms[i]), ms, i + 1)

(***************************************************************************)
(* The scenario directory.  A directory is its features.csv and its tree   *)
(* of subdirectories: subdirs maps the name of each subdirectory of the    *)
(* scenario directory to the names of that subdirectory's subdirectories.  *)
(***************************************************************************)
\* directory names that parse as integers, in ascending order
IntegerNames == << "1", "2", "3", "4" >>

\* sorted list of the integer-named subdirectories of scenario_directory
\* (path = <<>>) or of its subdirectory path[1]; empty when the directory
\* does not exist
check_for_integer_subdirectories(scenario_directory, path) ==
  LET entries ==
        IF scenario_directory = None THEN {}
        ELSE IF path = << >> THEN DOMAIN scenario_directory[1].subdirs
        ELSE IF path[1] \in DOMAIN scenario_directory[1].subdirs
             THEN scenario_directory[1].subdirs[path[1]]
             ELSE {}
      IsEntry(n) == n \in entries
  IN  SelectSeq(IntegerNames, IsEntry)

(***************************************************************************)
(* State: the catalog of the process, the number of determine_modules     *)
(* calls made, the arguments and the outcome of the most recent one, the   *)
(* list object that call worked on, the record of the first call and       *)
(* whether a call with other arguments was made since.                     *)
(***************************************************************************)
VARIABLES catalog, calls, features, scenario_directory, multi_stage,
          result, modules_to_use, first, intervened

(***************************************************************************)
(* The state of a run, which resolves, loads and then goes through the     *)
(* lifecycle phases: the installed package (which modules can be imported  *)
(* and which lifecycle functions each defines), how the load_modules call  *)
(* ended, the list it returned, the number of phases completed, the        *)
(* lifecycle functions invoked so far and where the run is.                *)
(***************************************************************************)
VARIABLES package, load, loaded_modules, phase, invocations, pc

runVars == << package, load, loaded_modules, phase, invocations, pc >>

(***************************************************************************)
(* The temporal setup of an optimization model: its horizons and           *)
(* timepoints; the previous_timepoint parameter that the horizons module   *)
(* builds from it, and the departure and arrival timepoints that the water *)
(* flows module builds from it (None until built).                         *)
(***************************************************************************)
VARIABLES temporal, previous_timepoint, arrivals

timeVars == << temporal, previous_timepoint, arrivals >>

vars == << catalog, calls, features, scenario_directory, multi_stage,
           result, modules_to_use, first, intervened,
           package, load, loaded_modules, phase, invocations, pc,
           temporal, previous_timepoint, arrivals >>

(***************************************************************************)
(* determine_modules                                                       *)
(***************************************************************************)
\* what is printed before sys.exit(1) when features.csv cannot be opened
FeaturesFileMessage ==
  << "ERROR! Features file ", "features.csv", " not found in ",
     "scenario_directory", "." >>

\* features.csv could not be opened: going on with no requested feature
RequestedFeaturesOrNone(fs, dir) ==
  IF fs # None
  THEN [exception |-> "", features |-> fs[1], message |-> << >>]
  ELSE LET csv == dir[1].features_csv
       IN  CASE csv.state = "readable" ->
                  [exception |-> "", features |-> csv.features,
                   message |-> << >>]
             [] csv.state \in { "absent", "unreadable" } ->
                  [exception |-> "", features |-> {},
                   message |-> FeaturesFileMessage]
             [] csv.state = "no_column" ->
                  [exception |-> "KeyError", features |-> {},
                   message |-> << "features" >>]

\* requested_features: the features argument, else the "features" column
\* of features.csv in the scenario directory
RequestedFeatures(fs, dir) ==
  IF fs # None
  THEN [exception |-> "", features |-> fs[1], message |-> << >>]
  ELSE LET csv == dir[1].features_csv
       IN  CASE csv.state = "readable" ->
                  [exception |-> "", features |-> csv.features,
                   message |-> << >>]
             [] csv.state \in { "absent", "unreadable" } ->
                  [exception |-> "SystemExit", features |-> {},
                   message |-> FeaturesFileMessage]
             [] csv.state = "no_column" ->
                  [exception |-> "KeyError", features |-> {},
                   message |-> << "features" >>]

\* modules_to_use = all_modules: one list object of the process, which
\* keeps what the calls before removed from it
SharedModulesToUse(c) == IF calls = 0 THEN c.all_modules ELSE modules_to_use

\* modules_to_use = all_modules_list(): a new list on every call
NewModulesToUse(c) == c.all_modules

\* the test of the optional loop with its branches exchanged
FeatureNotRequested(feature, requested_features) ==
  feature \notin requested_features

\* the test of the optional loop taking an empty request for a request of
\* every feature
FeatureRequestedOrNoRequest(feature, requested_features) ==
  requested_features = {} \/ feature \in requested_features

\* feature in requested_features
FeatureRequested(feature, requested_features) ==
  feature \in requested_features

\* the test of the shared loop with all() for any()
AnyRequestedAsAll(feature_group, requested_features) ==
  \A i \in 1..Len(feature_group) : feature_group[i] \in requested_features

\* any(feature in requested_features for feature in feature_group)
AnyRequested(feature_group, requested_features) ==
  \E i \in 1..Len(feature_group) : feature_group[i] \in requested_features

\* the test of the cross loop with any() for all()
AllRequestedAsAny(feature_group, requested_features) ==
  \E i \in 1..Len(feature_group) : feature_group[i] \in requested_features

\* the test of the cross loop with its two lists exchanged:
\* all(feature in feature_group for feature in requested_features)
AllRequestedExchanged(feature_group, requested_features) ==
  \A f \in requested_features : Contains(feature_group, f)

\* all(feature in requested_features for feature in feature_group)
AllRequested(feature_group, requested_features) ==
  \A i \in 1..Len(feature_group) : feature_group[i] \in requested_features

\* the stage search looking into the first subproblem only
StagesLoopFirstOnly(dir, subproblems, i, probes) ==
  LET stages == check_for_integer_subdirectories(dir, << subproblems[1] >>)
  IN  [broke  |-> stages # << >>,
       probes |-> Append(probes, << subproblems[1] >>)]

\* for subproblem in subproblems: ... if stages: break; the probes made and
\* whether the loop ended by break
RECURSIVE StagesLoop(_, _, _, _)
StagesLoop(dir, subproblems, i, probes) ==
  IF i > Len(subproblems) THEN [broke |-> FALSE, probes |-> probes]
  ELSE LET stages ==
             check_for_integer_subdirectories(dir, << subproblems[i] >>)
           probed == Append(probes, << subproblems[i] >>)
       IN  IF stages # << >>
           THEN [broke |-> TRUE, probes |-> probed]
           ELSE StagesLoop(dir, subproblems, i + 1, probed)

\* the multi_stage branch removing the fix_commitment module of a scenario
\* said to have stages, and keeping it for one said to have none
MultiStageStepExchanged(w, c, dir, ms) ==
  IF ms = "None"
  THEN LET subproblems == check_for_integer_subdirectories(dir, << >>)
           p0 == [w EXCEPT !.probes = << << >> >>]
       IN  IF subproblems # << >>
           THEN LET loop == StagesLoop(dir, subproblems, 1, p0.probes)
                    p1 == [p0 EXCEPT !.probes = loop.probes]
                IN  IF loop.broke THEN p1 ELSE Remove(p1, c.sentinel)
           ELSE Remove(p0, c.sentinel)
  ELSE IF ms = "True" THEN Remove(w, c.sentinel)
  ELSE w

\* the multi_stage branch: removes the fix_commitment module unless the
\* scenario has stages
MultiStageStep(w, c, dir, ms) ==
  IF ms = "None"
  THEN LET subproblems == check_for_integer_subdirectories(dir, << >>)
           p0 == [w EXCEPT !.probes = << << >> >>]
       IN  IF subproblems # << >>
           THEN LET loop == StagesLoop(dir, subproblems, 1, p0.probes)
                    p1 == [p0 EXCEPT !.probes = loop.probes]
                IN  IF loop.broke THEN p1 ELSE Remove(p1, c.sentinel)
           ELSE Remove(p0, c.sentinel)
  ELSE IF ms = "False" THEN Remove(w, c.sentinel)
  ELSE w

\* the loop over optional_modules
RECURSIVE RemoveOptional(_, _, _, _)
RemoveOptional(w, optional_modules, requested_features, k) ==
  IF w.exception # "" \/ k > Len(optional_modules) THEN w
  ELSE LET rule == optional_modules[k]
           next == IF FeatureRequested(rule.feature, requested_features)
                   THEN w
                   ELSE RemoveEach(w, rule.modules, 1)
       IN  RemoveOptional(next, optional_modules, requested_features, k + 1)

\* the loop over shared_modules
RECURSIVE RemoveShared(_, _, _, _)
RemoveShared(w, shared_modules, requested_features, k) ==
  IF w.exception # "" \/ k > Len(shared_modules) THEN w
  ELSE LET rule == shared_modules[k]
           next == IF AnyRequested(rule.features, requested_features)
                   THEN w
                   ELSE RemoveEach(w, rule.modules, 1)
       IN  RemoveShared(next, shared_modules, requested_features, k + 1)

\* the loop over cross_feature_modules
RECURSIVE RemoveCross(_, _, _, _)
RemoveCross(w, cross_feature_modules, requested_features, k) ==
  IF w.exception # "" \/ k > Len(cross_feature_modules) THEN w
  ELSE LET rule == cross_feature_modules[k]
           next == IF AllRequested(rule.features, requested_features)
                   THEN w
                   ELSE RemoveEach(w, rule.modules, 1)
       IN  RemoveCross(next, cross_feature_modules, requested_features, k + 1)

\* the message of the IOError raised when neither argument is given
NeitherSpecifiedMessage ==
  << "Need to specify either 'scenario_directory', the directory where 'features.csv' is saved, or 'features', the list of requested features" >>

\* the removals, on the working list of frame w0
Removals(w0, c, requested_features, dir, ms) ==
  LET w1 == MultiStageStep(w0, c, dir, ms)
      w2 == RemoveOptional(w1, c.optional, requested_features, 1)
      w3 == RemoveShared(w2, c.shared, requested_features, 1)
      w4 == RemoveCross(w3, c.cross, requested_features, 1)
  IN  w4

\* determine_modules building its list before it looks at its arguments
determine_modules_list_first(c, fs, dir, ms) ==
  LET w0 == Frame(NewModulesToUse(c))
  IN  IF dir = None /\ fs = None
      THEN [w0 EXCEPT !.exception = "IOError",
                      !.message = NeitherSpecifiedMessage]
      ELSE LET rf == RequestedFeatures(fs, dir)
           IN  IF rf.exception # ""
               THEN [w0 EXCEPT !.exception = rf.exception,
                               !.message = rf.message]
               ELSE Removals(w0, c, rf.features, dir, ms)

\* the frame in which a determine_modules(features, scenario_directory,
\* multi_stage) call on catalog c ends
determine_modules(c, fs, dir, ms) ==
  IF dir = None /\ fs = None
  THEN [Frame(<< >>) EXCEPT !.exception = "IOError",
                            !.message = NeitherSpecifiedMessage]
  ELSE LET rf == RequestedFeatures(fs, dir)
       IN  IF rf.exception # ""
           THEN [Frame(<< >>) EXCEPT !.exception = rf.exception,
                                     !.message = rf.message]
           ELSE Removals(Frame(NewModulesToUse(c)), c, rf.features, dir, ms)

\* what the caller of determine_modules gets: the returned list, or the
\* exception that propagates
Outcome(w) ==
  [status  |-> IF w.exception = "" THEN "returned" ELSE w.exception,
   modules |-> IF w.exception = "" THEN w.modules_to_use ELSE << >>,
   message |-> w.message,
   probes  |-> w.probes,
   removals |-> w.removals]

(***************************************************************************)
(* load_modules                                                            *)
(***************************************************************************)
\* the lifecycle functions a module may define
PhaseNames ==
  << "AddStructure", "LoadData", "ReadFromStore", "WriteDerivedInputs",
     "ValidateInputs", "ExportResults", "ImportResults",
     "PostProcessResults" >>

\* the lifecycle functions module m of package pkg defines
Capabilities(pkg, m) ==
  IF m \in pkg.lacking THEN Range(PhaseNames) \ pkg.lacked
  ELSE Range(PhaseNames)

\* what is printed before sys.exit(1) when module m cannot be imported
ImportErrorMessage(m) == << "ERROR! Unable to import module ", m, "." >>

\* frame of a running load_modules call: the list built so far, the ids
\* import_module was called with, and the exception that ended the call
LoadFrame ==
  [loaded_modules |-> << >>, imports |-> << >>, exception |-> "",
   message |-> << >>]

\* the loop putting each imported module at the head of the list
ImportEachPrepending(l, modules, pkg, i) ==
  LET bad == { k \in 1..Len(modules) : modules[k] \in pkg.missing }
  IN  IF bad = {}
      THEN [l EXCEPT !.imports = modules,
                     !.loaded_modules =
                        [k \in 1..Len(modules) |->
                           [id |-> modules[Len(modules) + 1 - k],
                            capabilities |->
                              Capabilities(pkg, modules[Len(modules) + 1 - k])]]]
      ELSE LET f == CHOOSE k \in bad : \A j \in bad : k <= j
           IN  [l EXCEPT !.imports = SubSeq(modules, 1, f),
                         !.exception = "SystemExit",
                         !.message = ImportErrorMessage(modules[f])]

\* the loop going on to the next module after a failed import
ImportEachContinuing(l, modules, pkg, i) ==
  LET Importable(m) == m \notin pkg.missing
      found == SelectSeq(modules, Importable)
      lost == SelectSeq(modules, LAMBDA m : ~ Importable(m))
  IN  [l EXCEPT !.imports = modules,
                !.loaded_modules =
                   [k \in 1..Len(found) |->
                      [id |-> found[k],
                       capabilities |-> Capabilities(pkg, found[k])]],
                !.message = IF lost = << >> THEN << >>
                            ELSE ImportErrorMessage(lost[Len(lost)])]

\* for m in modules_to_use: import_module and append, or print and exit
RECURSIVE ImportEach(_, _, _, _)
ImportEach(l, modules, pkg, i) ==
  IF l.exception # "" \/ i > Len(modules) THEN l
  ELSE LET m == modules[i]
           tried == [l EXCEPT !.imports = Append(@, m)]
       IN  IF m \in pkg.missing
           THEN [tried EXCEPT !.exception = "SystemExit",
                              !.message = ImportErrorMessage(m)]
           ELSE ImportEach(
                  [tried EXCEPT !.loaded_modules =
                     Append(@, [id |-> m,
                                capabilities |-> Capabilities(pkg, m)])],
                  modules, pkg, i + 1)

\* load_modules returning the modules it could import
load_modules_partial(modules, pkg) ==
  [ImportEach(LoadFrame, modules, pkg, 1) EXCEPT !.exception = ""]

\* the frame in which a load_modules(modules) call ends
load_modules(modules, pkg) ==
  ImportEach(LoadFrame, modules, pkg, 1)

\* what the caller of load_modules gets: the returned list, or the
\* exception that propagates
LoadOutcome(l) ==
  [status         |-> IF l.exception = "" THEN "returned" ELSE l.exception,
   loaded_modules |-> IF l.exception = "" THEN l.loaded_modules ELSE << >>,
   imports        |-> l.imports,
   message        |-> l.message]

(***************************************************************************)
(* The lifecycle phases.                                                   *)
(***************************************************************************)
\* the phases of a run, in order
RunPhases == SubSeq(PhaseNames, 1, MaxPhases)

\* the loop over the units leaving at the first unit without the function
RunPhaseFromStopping(p, units, i, r, failing) ==
  LET Capable(u) == p \in u.capabilities
      first_without ==
        IF \A k \in 1..Len(units) : Capable(units[k]) THEN Len(units) + 1
        ELSE CHOOSE k \in 1..Len(units) :
               /\ ~ Capable(units[k])
               /\ \A j \in 1..(k - 1) : Capable(units[j])
      last == IF failing \in 1..(first_without - 1) THEN failing
              ELSE first_without - 1
  IN  [invoked |-> [k \in 1..last |->
                      [phase |-> p, unit |-> units[k].id,
                       raised |-> k = failing]],
       failed  |-> failing \in 1..(first_without - 1)]

\* for each unit from the i-th on, in order: if it defines the function of
\* phase p, invoke it; the invocation of the unit at position failing
\* raises
RECURSIVE RunPhaseFrom(_, _, _, _, _)
RunPhaseFrom(p, units, i, r, failing) ==
  IF r.failed \/ i > Len(units) THEN r
  ELSE IF p \in units[i].capabilities
       THEN RunPhaseFrom(p, units, i + 1,
                         [invoked |-> Append(r.invoked,
                                             [phase |-> p,
                                              unit |-> units[i].id,
                                              raised |-> i = failing]),
                          failed  |-> i = failing],
                         failing)
       ELSE RunPhaseFrom(p, units, i + 1, r, failing)

\* a pass over the units that invokes, for each unit in turn, its function
\* of phase p and then its function of the phase after p
RunPhaseThroughUnits(p, units, failing) ==
  LET q == IF \E k \in 1..(Len(RunPhases) - 1) : RunPhases[k] = p
           THEN RunPhases[(CHOOSE k \in 1..(Len(RunPhases) - 1) :
                             RunPhases[k] = p) + 1]
           ELSE p
  IN  [invoked |-> [k \in 1..(2 * Len(units)) |->
                      [phase |-> IF k % 2 = 1 THEN p ELSE q,
                       unit |-> units[(k + 1) \div 2].id,
                       raised |-> FALSE]],
       failed  |-> FALSE]

\* a pass that goes on to the units after the one whose function raised
RunPhaseContinuing(p, units, failing) ==
  LET at == { k \in 1..Len(units) : p \in units[k].capabilities }
      capable == SelectSeq([k \in 1..Len(units) |-> k], LAMBDA k : k \in at)
  IN  [invoked |-> [j \in 1..Len(capable) |->
                      [phase |-> p, unit |-> units[capable[j]].id,
                       raised |-> capable[j] = failing]],
       failed  |-> FALSE]

\* RunPhase(phase, units): the invocations made and whether one raised
RunPhase(p, units, failing) ==
  RunPhaseFrom(p, units, 1, [invoked |-> << >>, failed |-> FALSE], failing)

(***************************************************************************)
(* The calls of the model.                                                 *)
(***************************************************************************)
\* a feature that no rule of any catalog names
UnknownFeature == "not_a_feature"

\* the features named by the rules of catalog c
RuleFeatures(c) ==
  { c.optional[k].feature : k \in 1..Len(c.optional) }
    \cup UNION { Range(c.shared[k].features) : k \in 1..Len(c.shared) }
    \cup UNION { Range(c.cross[k].features) : k \in 1..Len(c.cross) }

\* the subsets of U of at most k elements
RECURSIVE SubsetsUpTo(_, _)
SubsetsUpTo(U, k) ==
  IF k = 0 THEN { {} }
  ELSE LET P == SubsetsUpTo(U, k - 1)
       IN  P \cup { S \cup { x } : S \in P, x \in U }

\* the sets within k features of the empty set or of the set of every
\* feature the rules of c name and the unknown one
FeatureSetsWithin(c, k) ==
  LET U == RuleFeatures(c) \cup { UnknownFeature }
      P == SubsetsUpTo(U, k)
  IN  P \cup { U \ S : S \in P }

\* the requested-feature lists drawn for the calls that name features and
\* multi_stage
RequestedSets(c) == FeatureSetsWithin(c, MaxRequested)

\* the requested-feature lists drawn for the calls that read the scenario
\* directory
DirectoryRequestedSets(c) == FeatureSetsWithin(c, MaxRequested - 1)

\* the subdirectories a subproblem directory may have: none, one that is
\* not a stage, or the stage directories
StageEntrySets ==
  { {}, { "logs" }, { IntegerNames[i] : i \in 1..MaxStages } }

\* the directory trees drawn: subproblem directories "1".."k", each with
\* or without stage directories, next to a logs directory
DirectoryTrees ==
  UNION { { [n \in { IntegerNames[i] : i \in 1..k } \cup { "logs" } |->
               IF n = "logs" THEN { "1" } ELSE g[n]] :
            g \in [{ IntegerNames[i] : i \in 1..k } -> StageEntrySets] } :
          k \in 0..MaxSubproblems }

NoFeaturesFile == [state |-> "absent", features |-> {}]

FeaturesFiles(c) ==
  { [state |-> st, features |-> {}] :
      st \in { "absent", "unreadable", "no_column" } }
    \cup { [state |-> "readable", features |-> F] :
             F \in DirectoryRequestedSets(c) }

\* a scenario directory without subdirectories
EmptyTree == [n \in {} |-> {}]

\* the argument lists drawn for catalog c that do not have the scenario
\* directory probed: features or features.csv, and multi_stage; or neither
\* features nor a directory
SessionInputs(c) ==
  { [features |-> Some(F), scenario_directory |-> None, multi_stage |-> ms] :
      F \in RequestedSets(c), ms \in { "True", "False" } }
    \cup
  { [features |-> None,
     scenario_directory |-> Some([features_csv |-> f, subdirs |-> EmptyTree]),
     multi_stage |-> ms] :
      f \in FeaturesFiles(c), ms \in { "True", "False" } }
    \cup
  { [features |-> None, scenario_directory |-> None, multi_stage |-> ms] :
      ms \in { "None", "True", "False" } }

\* the argument lists drawn for catalog c that have the scenario directory
\* probed: no multi_stage, and features or features.csv
ProbingInputs(c) ==
  { [features |-> Some(F),
     scenario_directory |-> Some([features_csv |-> NoFeaturesFile,
                                  subdirs |-> t]),
     multi_stage |-> "None"] :
      F \in DirectoryRequestedSets(c), t \in DirectoryTrees }
    \cup
  { [features |-> None,
     scenario_directory |-> Some([features_csv |-> f, subdirs |-> t]),
     multi_stage |-> "None"] :
      f \in FeaturesFiles(c), t \in DirectoryTrees }

\* the argument lists drawn for catalog c.  A call without a scenario
\* directory names multi_stage; the subdirectories are drawn only for the
\* calls that probe them.
Inputs(c) == SessionInputs(c) \cup ProbingInputs(c)

NoResult ==
  [status |-> "none", modules |-> << >>, message |-> << >>,
   probes |-> << >>, removals |-> 0]

\* no package: the process only resolves
NoPackage == [missing |-> {}, lacking |-> {}, lacked |-> {}]

\* the packages drawn for catalog c: at most MaxMissing modules of the
\* catalog cannot be imported, and at most MaxLacking modules lack the
\* function of one phase of the run, or of every phase
Packages(c) ==
  LET ids == Range(c.all_modules)
  IN  { [missing |-> M, lacking |-> L, lacked |-> IF L = {} THEN {} ELSE Q] :
          M \in SubsetsUpTo(ids, MaxMissing),
          L \in SubsetsUpTo(ids, MaxLacking),
          Q \in { { RunPhases[k] } : k \in 1..Len(RunPhases) }
                  \cup { Range(PhaseNames) } }

NoLoad ==
  [status |-> "none", loaded_modules |-> << >>, imports |-> << >>,
   message |-> << >>]

\* no temporal setup: the process builds no optimization model
NoTemporal ==
  [HORIZONS |-> << >>, per |-> 0, boundary |-> << >>, hrs_in_tmp |-> << >>]

TimeIdle ==
  /\ temporal = NoTemporal
  /\ previous_timepoint = None
  /\ arrivals = None

\* a run that has not begun
RunInit ==
  /\ load = NoLoad
  /\ loaded_modules = << >>
  /\ phase = 0
  /\ invocations = << >>
  /\ pc = "resolve"

InitWith(names) ==
  /\ package = NoPackage
  /\ RunInit
  /\ TimeIdle
  /\ catalog \in names
  /\ calls = 0
  /\ features = None
  /\ scenario_directory = None
  /\ multi_stage = "None"
  /\ result = NoResult
  /\ modules_to_use = << >>
  /\ first = None
  /\ intervened = FALSE

\* a process with the shipped catalog or with the scenario's
Init == InitWith(CatalogNames)

\* a process with a catalog that breaks the rules' integrity
InitDefective == InitWith(DefectiveCatalogNames)

\* a process that calls determine_modules repeatedly
InitSession == InitWith({ "scenario", "cross_overlap" })

\* one determine_modules(features, scenario_directory, multi_stage) call
Invoke(inp) ==
  LET w == determine_modules(Catalog(catalog), inp.features,
                             inp.scenario_directory, inp.multi_stage)
  IN  /\ features' = inp.features
      /\ scenario_directory' = inp.scenario_directory
      /\ multi_stage' = inp.multi_stage
      /\ result' = Outcome(w)
      /\ modules_to_use' = w.modules_to_use
      /\ calls' = calls + 1
      /\ UNCHANGED catalog
      /\ UNCHANGED timeVars

\* the first call of the process
Call ==
  /\ calls = 0
  /\ \E inp \in Inputs(Catalog(catalog)) :
       /\ Invoke(inp)
       /\ first' = Some([input |-> inp, result |-> result'])
  /\ UNCHANGED intervened
  /\ UNCHANGED runVars

\* the first call of a process that calls repeatedly
SessionCall ==
  /\ calls = 0
  /\ \E inp \in SessionInputs(Catalog(catalog)) :
       /\ Invoke(inp)
       /\ first' = Some([input |-> inp, result |-> result'])
  /\ UNCHANGED intervened
  /\ UNCHANGED runVars

\* a later call, with any arguments
OtherCall ==
  /\ 1 <= calls /\ calls < MaxCalls
  /\ \E inp \in SessionInputs(Catalog(catalog)) :
       /\ Invoke(inp)
       /\ intervened' = (intervened \/ inp # first[1].input)
  /\ UNCHANGED first
  /\ UNCHANGED runVars

\* a later call, with the arguments of the first call
Repeat ==
  /\ 1 <= calls /\ calls < MaxCalls
  /\ Invoke(first[1].input)
  /\ UNCHANGED << first, intervened >>
  /\ UNCHANGED runVars

Next == Call

Spec == Init /\ [][Next]_vars

SpecDefective == InitDefective /\ [][Next]_vars

NextSession == SessionCall \/ OtherCall \/ Repeat

SpecSession == InitSession /\ [][NextSession]_vars

\* the calls whose resolution starts a run on the scenario's catalog: its
\* three reference requests, and a call without arguments
RunInputs ==
  { [features |-> Some(r[1]), scenario_directory |-> None,
     multi_stage |-> r[2]] :
      r \in { << {}, "False" >>, << { "A" }, "False" >>,
              << { "A", "B" }, "True" >> } }
    \cup
  { [features |-> None, scenario_directory |-> None, multi_stage |-> "None"] }

\* a run on the scenario's catalog with some package installed
InitRun ==
  /\ package \in Packages(ScenarioCatalog)
  /\ RunInit
  /\ TimeIdle
  /\ catalog = "scenario"
  /\ calls = 0
  /\ features = None
  /\ scenario_directory = None
  /\ multi_stage = "None"
  /\ result = NoResult
  /\ modules_to_use = << >>
  /\ first = None
  /\ intervened = FALSE

\* Resolve: the determine_modules call of the run
RunResolve ==
  /\ pc = "resolve"
  /\ \E inp \in RunInputs :
       /\ Invoke(inp)
       /\ first' = Some([input |-> inp, result |-> result'])
  /\ pc' = IF result'.status = "returned" THEN "load" ELSE "aborted"
  /\ UNCHANGED << intervened, package, load, loaded_modules, phase,
                  invocations >>

\* Load: the load_modules call of the run, on the list Resolve returned
RunLoad ==
  /\ pc = "load"
  /\ load' = LoadOutcome(load_modules(result.modules, package))
  /\ loaded_modules' = load'.loaded_modules
  /\ pc' = IF load'.status = "returned" THEN "phases" ELSE "aborted"
  /\ UNCHANGED << catalog, calls, features, scenario_directory, multi_stage,
                  result, modules_to_use, first, intervened, package, phase,
                  invocations >>
  /\ UNCHANGED timeVars

\* a run that goes from Load to the second phase
PhaseAfterSkipping(k) == IF k = 0 THEN 2 ELSE k + 1

\* the position, in the run's sequence, of the phase that follows k
\* completed phases
PhaseAfter(k) == k + 1

\* the next phase of the run: RunPhase on the loaded units, in which the
\* function of at most one unit raises
RunNextPhase ==
  /\ pc = "phases"
  /\ PhaseAfter(phase) <= Len(RunPhases)
  /\ \E failing \in 0..Len(loaded_modules) :
       LET n == PhaseAfter(phase)
           r == RunPhase(RunPhases[n], loaded_modules, failing)
       IN  /\ invocations' = invocations \o r.invoked
           /\ phase' = IF r.failed THEN phase ELSE n
           /\ pc' = IF r.failed THEN "aborted"
                    ELSE IF n = Len(RunPhases) THEN "completed"
                    ELSE "phases"
  /\ UNCHANGED << catalog, calls, features, scenario_directory, multi_stage,
                  result, modules_to_use, first, intervened, package, load,
                  loaded_modules >>
  /\ UNCHANGED timeVars

NextRun == RunResolve \/ RunLoad \/ RunNextPhase

SpecRun == InitRun /\ [][NextRun]_vars

(***************************************************************************)
(* The temporal setup.  Horizon h of HORIZONS has the timepoints           *)
(* (h-1)*per+1 .. h*per; boundary[h] is its boundary and hrs_in_tmp[tmp]   *)
(* the duration of timepoint tmp.                                          *)
(***************************************************************************)
TIMEPOINTS(mod) == 1..(Len(mod.HORIZONS) * mod.per)

horizon(mod, tmp) == ((tmp - 1) \div mod.per) + 1

TIMEPOINTS_ON_HORIZON(mod, h) ==
  { tmp \in TIMEPOINTS(mod) : horizon(mod, tmp) = h }

first_horizon_timepoint(mod, h) ==
  CHOOSE tmp \in TIMEPOINTS_ON_HORIZON(mod, h) :
    \A o \in TIMEPOINTS_ON_HORIZON(mod, h) : tmp <= o

last_horizon_timepoint(mod, h) ==
  CHOOSE tmp \in TIMEPOINTS_ON_HORIZON(mod, h) :
    \A o \in TIMEPOINTS_ON_HORIZON(mod, h) : tmp >= o

\* previous_timepoint_init from the i-th horizon on: every branch of the
\* loop body returns, so the loop never gets to the horizon after
PreviousTimepointFrom(mod, tmp, i) ==
  IF i > Len(mod.HORIZONS) THEN [exception |-> "", value |-> None]
  ELSE LET h == mod.HORIZONS[i]
       IN  IF tmp = first_horizon_timepoint(mod, h)
           THEN IF mod.boundary[h] = "circular"
                THEN [exception |-> "",
                      value |-> Some(last_horizon_timepoint(mod, h))]
                ELSE IF mod.boundary[h] = "linear"
                THEN [exception |-> "", value |-> None]
                ELSE [exception |-> "ValueError", value |-> None]
           ELSE [exception |-> "", value |-> Some(tmp - 1)]

previous_timepoint_init(mod, tmp) == PreviousTimepointFrom(mod, tmp, 1)

(***************************************************************************)
(* The water flows.                                                        *)
(***************************************************************************)
check_boundary_type(mod, tmp, boundary_type) ==
  mod.boundary[horizon(mod, tmp)] = boundary_type

check_if_boundary_type_and_last_timepoint(mod, tmp, boundary_type) ==
  /\ tmp = last_horizon_timepoint(mod, horizon(mod, tmp))
  /\ mod.boundary[horizon(mod, tmp)] = boundary_type

\* the timepoint after tmp on its horizon: after the last one, the first
\* of a circular horizon and none of any other
next_tmp(mod, tmp) ==
  IF tmp = last_horizon_timepoint(mod, horizon(mod, tmp))
  THEN IF mod.boundary[horizon(mod, tmp)] = "circular"
       THEN Some(first_horizon_timepoint(mod, horizon(mod, tmp)))
       ELSE None
  ELSE Some(tmp + 1)

\* the while loop of determine_arrival_timepoint, given up after more
\* iterations than the setup has timepoints
RECURSIVE ArrivalLoop(_, _, _, _, _, _)
ArrivalLoop(mod, tmp, travel_time_hours, tmp_to_check, hours_from_departure_tmp, steps) ==
  IF ~ (hours_from_departure_tmp < travel_time_hours)
  THEN [value |-> tmp_to_check, steps |-> steps, diverged |-> FALSE]
  ELSE IF steps > Len(mod.hrs_in_tmp)
  THEN [value |-> tmp_to_check, steps |-> steps, diverged |-> TRUE]
  ELSE IF check_if_boundary_type_and_last_timepoint(mod, tmp_to_check[1],
                                                     "linear")
  THEN [value |-> tmp_to_check, steps |-> steps, diverged |-> FALSE]
  ELSE IF check_boundary_type(mod, tmp, "circular") /\ tmp_to_check[1] = tmp
  THEN [value |-> tmp_to_check, steps |-> steps, diverged |-> FALSE]
  ELSE IF check_if_boundary_type_and_last_timepoint(mod, tmp_to_check[1],
                                                     "linked")
  THEN [value |-> tmp_to_check, steps |-> steps, diverged |-> FALSE]
  ELSE ArrivalLoop(mod, tmp, travel_time_hours,
                   next_tmp(mod, tmp_to_check[1]),
                   hours_from_departure_tmp + mod.hrs_in_tmp[tmp_to_check[1]],
                   steps + 1)

\* the search starting without the duration of the departure timepoint
determine_arrival_timepoint_from_zero(mod, tmp, travel_time_hours) ==
  IF \/ check_if_boundary_type_and_last_timepoint(mod, tmp, "linear")
     \/ check_if_boundary_type_and_last_timepoint(mod, tmp, "linked")
  THEN [value |-> None, steps |-> 0, diverged |-> FALSE]
  ELSE ArrivalLoop(mod, tmp, travel_time_hours, next_tmp(mod, tmp), 0, 0)

determine_arrival_timepoint(mod, tmp, travel_time_hours) ==
  IF check_if_boundary_type_and_last_timepoint(mod, tmp, "linear")
  THEN [value |-> None, steps |-> 0, diverged |-> FALSE]
  ELSE IF check_if_boundary_type_and_last_timepoint(mod, tmp, "linked")
  THEN [value |-> None, steps |-> 0, diverged |-> FALSE]
  ELSE ArrivalLoop(mod, tmp, travel_time_hours, next_tmp(mod, tmp),
                   mod.hrs_in_tmp[tmp], 0)

\* WATER_LINK_DEPARTURE_ARRIVAL_TMPS of a link with the given travel time:
\* the arrival found for each departure timepoint, and the pairs kept
water_link_departure_arrival_tmp_init(mod, travel_time_hours) ==
  LET found == [tmp \in TIMEPOINTS(mod) |->
                  determine_arrival_timepoint(mod, tmp, travel_time_hours)]
  IN  [travel_time_hours |-> travel_time_hours,
       arrival |-> found,
       wl_dep_arr_tmp |->
         { << tmp, found[tmp].value[1] >> :
             tmp \in { t \in TIMEPOINTS(mod) : found[t].value # None } }]

(***************************************************************************)
(* Building the temporal components of a model.                            *)
(***************************************************************************)
Boundaries == { "circular", "linear", "linked" }

\* the durations drawn for n timepoints: one hour each, but for at most one
\* timepoint, which is longer
Durations(n) ==
  { [t \in 1..n |-> 1] }
    \cup { [t \in 1..n |-> IF t = s THEN d ELSE 1] :
             s \in 1..n, d \in 2..MaxHours }

\* the temporal setups drawn: up to MaxHorizons horizons of the same
\* number of timepoints, up to MaxTimepoints, each with its boundary
Temporals ==
  UNION { { [HORIZONS |-> [h \in 1..k |-> h], per |-> n, boundary |-> b,
             hrs_in_tmp |-> d] :
              b \in [1..k -> Boundaries], d \in Durations(k * n) } :
          k \in 1..MaxHorizons, n \in 1..MaxTimepoints }

InitTime ==
  /\ temporal \in Temporals
  /\ previous_timepoint = None
  /\ arrivals = None
  /\ package = NoPackage
  /\ RunInit
  /\ catalog = "shipped"
  /\ calls = 0
  /\ features = None
  /\ scenario_directory = None
  /\ multi_stage = "None"
  /\ result = NoResult
  /\ modules_to_use = << >>
  /\ first = None
  /\ intervened = FALSE

\* add_model_components of the horizons module: the previous_timepoint
\* parameter, initialized for every timepoint
AddHorizonComponents ==
  /\ previous_timepoint = None
  /\ previous_timepoint' =
       [tmp \in TIMEPOINTS(temporal) |->
          previous_timepoint_init(temporal, tmp)]
  /\ UNCHANGED << catalog, calls, features, scenario_directory, multi_stage,
                  result, modules_to_use, first, intervened, temporal,
                  arrivals >>
  /\ UNCHANGED runVars

\* add_model_components of the water flows module, for a water link with
\* some travel time
AddWaterFlowComponents ==
  /\ arrivals = None
  /\ \E travel_time_hours \in 0..MaxTravel :
       arrivals' = Some(water_link_departure_arrival_tmp_init(
                          temporal, travel_time_hours))
  /\ UNCHANGED << catalog, calls, features, scenario_directory, multi_stage,
                  result, modules_to_use, first, intervened, temporal,
                  previous_timepoint >>
  /\ UNCHANGED runVars

NextTime == AddHorizonComponents \/ AddWaterFlowComponents

SpecTime == InitTime /\ [][NextTime]_vars

(***************************************************************************)
(* Properties.                                                             *)
(***************************************************************************)
Returned == calls > 0 /\ result.status = "returned"

\* the features the most recent call resolved against: the features
\* argument, else the content of features.csv
Requested ==
  IF features # None THEN features[1]
  ELSE IF scenario_directory # None
          /\ scenario_directory[1].features_csv.state = "readable"
       THEN scenario_directory[1].features_csv.features
       ELSE {}

\* the most recent call had a requested-feature list to resolve against
HasRequested ==
  \/ features # None
  \/ /\ scenario_directory # None
     /\ scenario_directory[1].features_csv.state = "readable"

IsIntegerName(n) == \E i \in 1..Len(IntegerNames) : IntegerNames[i] = n

\* some integer-named subdirectory of the scenario directory has an
\* integer-named subdirectory
HasStages(dir) ==
  /\ dir # None
  /\ \E s \in DOMAIN dir[1].subdirs :
       /\ IsIntegerName(s)
       /\ \E n \in dir[1].subdirs[s] : IsIntegerName(n)

\* the multi-stage flag in effect in the most recent call
EffectiveMultiStage ==
  IF multi_stage = "None" THEN HasStages(scenario_directory)
  ELSE multi_stage = "True"

\* the concatenation of the lists ls[k], ..., ls[Len(ls)]
RECURSIVE Flatten(_, _)
Flatten(ls, k) ==
  IF k > Len(ls) THEN << >> ELSE ls[k] \o Flatten(ls, k + 1)

\* the ids the rules of catalog c list, in rule order, with repetitions
RuleModuleList(c) ==
  Flatten([k \in 1..Len(c.optional) |-> c.optional[k].modules]
            \o [k \in 1..Len(c.shared) |-> c.shared[k].modules]
            \o [k \in 1..Len(c.cross) |-> c.cross[k].modules], 1)

\* m is not the sentinel and occurs once in the list of rule ids
ListedOnce(listed, sentinel, m) ==
  /\ m # sentinel
  /\ Cardinality({ j \in 1..Len(listed) : listed[j] = m }) = 1

\* the sub-sequence of list a made of its elements that are in set S
Restrict(a, S) ==
  LET InS(m) == m \in S
  IN  SelectSeq(a, InS)

\* C1: whenever determine_modules returns, the returned list is a
\* sub-sequence of the canonical list: it is the canonical list restricted
\* to the returned ids (every element is canonical and the canonical
\* relative order is kept) and no element occurs twice.
C1_ResolvedIsSubsequence ==
  Returned =>
    /\ result.modules
         = Restrict(Catalog(catalog).all_modules, Range(result.modules))
    /\ Cardinality(Range(result.modules)) = Len(result.modules)

\* a call on the shipped catalog returned a proper, non-empty part of the
\* canonical list that drops modules from its middle
C1_Witness ==
  /\ Returned
  /\ catalog = "shipped"
  /\ Len(result.modules) > 1
  /\ Len(result.modules) < Len(all_modules_list)
  /\ ~ Contains(result.modules, "geography.carbon_cap_zones")
  /\ Contains(result.modules, "geography.prm_zones")
  /\ Contains(result.modules, "objective.max_npv")

\* C2: whenever determine_modules returns, an id listed under a
\* single-feature rule f (and under no other rule) is in the returned list
\* if and only if f is among the requested features.
C2_OptionalRuleDecides ==
  Returned =>
    LET c == Catalog(catalog)
        listed == RuleModuleList(c)
    IN  \A k \in 1..Len(c.optional) :
          \A i \in 1..Len(c.optional[k].modules) :
            LET m == c.optional[k].modules[i]
            IN  ListedOnce(listed, c.sentinel, m) =>
                  (Contains(result.modules, m)
                     <=> c.optional[k].feature \in Requested)

\* a call on the shipped catalog returned with the modules of a requested
\* feature and without those of an unrequested one
C2_Witness ==
  /\ Returned
  /\ catalog = "shipped"
  /\ "prm" \in Requested
  /\ "carbon_cap" \notin Requested
  /\ Contains(result.modules, "project.reliability.prm.prm_simple")
  /\ ~ Contains(result.modules, "project.operations.carbon_cap")

\* C3: whenever determine_modules returns, the ids of a cross-feature rule
\* are in the returned list if and only if every feature of the rule's
\* tuple is requested.
C3_CrossRuleNeedsAll ==
  Returned =>
    LET c == Catalog(catalog)
    IN  \A k \in 1..Len(c.cross) :
          \A i \in 1..Len(c.cross[k].modules) :
            Contains(result.modules, c.cross[k].modules[i])
              <=> Range(c.cross[k].features) \subseteq Requested

\* a call on the shipped catalog requested a proper, non-empty part of a
\* cross-feature tuple and returned without the rule's modules
C3_Witness ==
  /\ Returned
  /\ catalog = "shipped"
  /\ "transmission" \in Requested
  /\ "transmission_hurdle_rates" \notin Requested
  /\ Contains(result.modules, "transmission.operations.operations")
  /\ ~ Contains(result.modules, "transmission.operations.hurdle_costs")

\* C4: whenever determine_modules returns, the ids of a shared-feature
\* rule are in the returned list if and only if at least one feature of
\* the rule's tuple is requested.
C4_SharedRuleNeedsAny ==
  Returned =>
    LET c == Catalog(catalog)
    IN  \A k \in 1..Len(c.shared) :
          \A i \in 1..Len(c.shared[k].modules) :
            Contains(result.modules, c.shared[k].modules[i])
              <=> Range(c.shared[k].features) \cap Requested # {}

\* a call on the shipped catalog requested exactly one feature of the
\* shared tuple and returned with the rule's modules
C4_Witness ==
  /\ Returned
  /\ catalog = "shipped"
  /\ "horizon_energy_target" \in Requested
  /\ "period_energy_target" \notin Requested
  /\ Contains(result.modules, "geography.energy_target_zones")
  /\ Contains(result.modules, "project.operations.energy_target_contributions")

\* C5: whenever determine_modules returns, the fix_commitment module (the
\* catalog's sentinel) is in the returned list if and only if the
\* effective multi-stage flag is true: the multi_stage argument when one is
\* given, the scenario directory then not being probed, and otherwise
\* whether some integer-named subproblem directory has an integer-named
\* stage subdirectory.
C5_SentinelFollowsMultiStage ==
  Returned =>
    /\ Contains(result.modules, Catalog(catalog).sentinel)
         <=> EffectiveMultiStage
    /\ multi_stage # "None" => result.probes = << >>

\* a call without multi_stage on a scenario directory whose first
\* subproblem has no stages and whose second has one kept fix_commitment
C5_Witness ==
  /\ Returned
  /\ catalog = "shipped"
  /\ multi_stage = "None"
  /\ scenario_directory # None
  /\ DOMAIN scenario_directory[1].subdirs = { "1", "2", "logs" }
  /\ scenario_directory[1].subdirs["1"] = { "logs" }
  /\ scenario_directory[1].subdirs["2"] = { "1" }
  /\ Contains(result.modules, fix_commitment)

\* the ids listed under the rules of catalog c
RuleModules(c) == Range(RuleModuleList(c))

\* C6: a call with an empty requested-feature list and multi_stage False
\* returns the canonical list without the ids of every optional, shared
\* and cross-feature rule and without the sentinel, in canonical order.
C6_EmptyRequestKeepsCore ==
  (calls > 0 /\ HasRequested /\ Requested = {} /\ multi_stage = "False") =>
    LET c == Catalog(catalog)
    IN  /\ result.status = "returned"
        /\ result.modules
             = Restrict(c.all_modules,
                        Range(c.all_modules)
                          \ (RuleModules(c) \cup { c.sentinel }))
        /\ Range(result.modules) \cap (RuleModules(c) \cup { c.sentinel })
             = {}

\* a call on the shipped catalog with no feature and multi_stage False
\* returned the 25 modules that no rule lists
C6_Witness ==
  /\ Returned
  /\ catalog = "shipped"
  /\ features = Some({})
  /\ multi_stage = "False"
  /\ Len(result.modules) = 25
  /\ result.modules[1] = "temporal.operations.timepoints"
  /\ result.modules[25] = "objective.max_npv"

\* C7: on the catalog m1..m10 with A -> [m3, m5], B -> [m7],
\* (A, B) -> [m9] and sentinel m10, requesting {A} with multi_stage True
\* returns [m1,m2,m3,m4,m5,m6,m8,m10], requesting {A, B} with multi_stage
\* False returns [m1,...,m9], and requesting nothing with multi_stage False
\* returns [m1,m2,m4,m6,m8].
C7_ScenarioResolutions ==
  (calls > 0 /\ catalog = "scenario" /\ HasRequested) =>
    /\ (Requested = { "A" } /\ multi_stage = "True") =>
         /\ result.status = "returned"
         /\ result.modules
              = << "m1", "m2", "m3", "m4", "m5", "m6", "m8", "m10" >>
    /\ (Requested = { "A", "B" } /\ multi_stage = "False") =>
         /\ result.status = "returned"
         /\ result.modules
              = << "m1", "m2", "m3", "m4", "m5", "m6", "m7", "m8", "m9" >>
    /\ (Requested = {} /\ multi_stage = "False") =>
         /\ result.status = "returned"
         /\ result.modules = << "m1", "m2", "m4", "m6", "m8" >>

\* the call of the scenario that requests {A} with multi_stage True has
\* returned, m10 last
C7_Witness ==
  /\ Returned
  /\ catalog = "scenario"
  /\ features = Some({ "A" })
  /\ multi_stage = "True"
  /\ Len(result.modules) = 8
  /\ result.modules[8] = "m10"

\* the arguments of the most recent call without the features in drop,
\* in the features argument and in features.csv
InputWithout(drop) ==
  [features |-> IF features = None THEN None
                ELSE Some(features[1] \ drop),
   scenario_directory |->
     IF scenario_directory = None THEN None
     ELSE Some([scenario_directory[1] EXCEPT
                  !.features_csv.features = @ \ drop]),
   multi_stage |-> multi_stage]

\* C9: a call whose requested features include features that no rule of
\* the catalog names returns, and returns what the call without those
\* features returns.
C9_UnknownFeatureInert ==
  (calls > 0 /\ HasRequested) =>
    LET c == Catalog(catalog)
        unknown == Requested \ RuleFeatures(c)
        inp == InputWithout(unknown)
    IN  unknown # {} =>
          /\ result.status = "returned"
          /\ result
               = Outcome(determine_modules(c, inp.features,
                                           inp.scenario_directory,
                                           inp.multi_stage))

\* a call on the shipped catalog that requested the unknown feature next
\* to the features of a cross-feature rule returned with the rule's modules
C9_Witness ==
  /\ Returned
  /\ catalog = "shipped"
  /\ UnknownFeature \in Requested
  /\ { "transmission", "transmission_hurdle_rates" } \subseteq Requested
  /\ Contains(result.modules, "transmission.operations.hurdle_costs")

\* the arguments of the most recent call
CurrentInput ==
  [features |-> features, scenario_directory |-> scenario_directory,
   multi_stage |-> multi_stage]

\* C8: a call with the arguments of the first call of the process has the
\* outcome of the first call (the same list, element for element), however
\* many calls with other arguments were made in between.
C8_SameInputsSameResult ==
  (calls >= 2 /\ CurrentInput = first[1].input) =>
    result = first[1].result

\* the first call returned a list with modules removed, calls with other
\* arguments followed, and the call was then made again and has returned
C8_Witness ==
  /\ calls = MaxCalls
  /\ intervened
  /\ CurrentInput = first[1].input
  /\ Returned
  /\ Len(result.modules) < Len(Catalog(catalog).all_modules)
  /\ Len(result.modules) > 0

\* the modules of the rules[k] that test leaves unsatisfied, in rule order
UnsatisfiedOptional(c, requested) ==
  LET Unrequested(rule) == rule.feature \notin requested
      rules == SelectSeq(c.optional, Unrequested)
  IN  Flatten([k \in 1..Len(rules) |-> rules[k].modules], 1)

UnsatisfiedShared(c, requested) ==
  LET NoneRequested(rule) == Range(rule.features) \cap requested = {}
      rules == SelectSeq(c.shared, NoneRequested)
  IN  Flatten([k \in 1..Len(rules) |-> rules[k].modules], 1)

UnsatisfiedCross(c, requested) ==
  LET SomeMissing(rule) == ~ (Range(rule.features) \subseteq requested)
      rules == SelectSeq(c.cross, SomeMissing)
  IN  Flatten([k \in 1..Len(rules) |-> rules[k].modules], 1)

\* the ids the most recent call sets out to remove, in the order of the
\* removals: the sentinel, then the ids of the unsatisfied rules
RemovalTargets ==
  LET c == Catalog(catalog)
  IN  (IF EffectiveMultiStage THEN << >> ELSE << c.sentinel >>)
        \o UnsatisfiedOptional(c, Requested)
        \o UnsatisfiedShared(c, Requested)
        \o UnsatisfiedCross(c, Requested)

\* the i-th removal of targets finds its id absent from the list a once
\* the removals before it are done
AbsentAt(targets, a, i) ==
  Cardinality({ j \in 1..i : targets[j] = targets[i] })
    > Cardinality({ j \in 1..Len(a) : a[j] = targets[i] })

\* C10: a call in which some removal, of the sentinel or of the id of an
\* optional, shared or cross-feature rule, targets an id that is not (or
\* no longer) in the working list ends with the ValueError of list.remove
\* and returns no list.
C10_AbsentRemovalIsFatal ==
  (calls > 0 /\ HasRequested) =>
    LET targets == RemovalTargets
        a == Catalog(catalog).all_modules
    IN  (\E i \in 1..Len(targets) : AbsentAt(targets, a, i)) =>
          /\ result.status = "ValueError"
          /\ result.modules = << >>

\* a call whose cross-feature rule targets an id that its single-feature
\* rule has removed ended with ValueError
C10_Witness ==
  /\ calls > 0
  /\ catalog = "cross_overlap"
  /\ Requested = { "A" }
  /\ multi_stage = "True"
  /\ result.status = "ValueError"
  /\ modules_to_use = << "m1", "m2", "m3", "m4", "m5", "m6", "m8", "m10" >>

\* the rules of catalog c that list id m, each as the set of its features
RulesListing(c, m) ==
  { { c.optional[k].feature } :
      k \in { j \in 1..Len(c.optional) : Contains(c.optional[j].modules, m) } }
    \cup
  { Range(c.shared[k].features) :
      k \in { j \in 1..Len(c.shared) : Contains(c.shared[j].modules, m) } }
    \cup
  { Range(c.cross[k].features) :
      k \in { j \in 1..Len(c.cross) : Contains(c.cross[j].modules, m) } }

\* the position, in the removals the most recent call set out to make, of
\* the first removal that finds its id absent
FirstAbsent(targets, a) ==
  CHOOSE i \in 1..Len(targets) :
    /\ AbsentAt(targets, a, i)
    /\ \A j \in 1..(i - 1) : ~ AbsentAt(targets, a, j)

\* C11: the fatal error of a call in which a rule removes an absent id
\* identifies the id that was absent and the rule that listed it (for the
\* sentinel, the multi-stage rule).
C11_RemovalErrorNamesIdAndRule ==
  (calls > 0 /\ result.status = "ValueError") =>
    LET c == Catalog(catalog)
        targets == RemovalTargets
        m == targets[FirstAbsent(targets, c.all_modules)]
    IN  /\ m \in Range(result.message)
        /\ \/ m = c.sentinel
           \/ \E rule \in RulesListing(c, m) :
                rule \subseteq Range(result.message)

\* C12: a call with neither features nor a scenario directory ends with
\* the IOError, which propagates to the caller, before anything else is
\* done: no working list was built, no directory probed, no removal made.
C12_NeitherGivenFailsFirst ==
  (calls > 0 /\ features = None /\ scenario_directory = None) =>
    /\ result.status = "IOError"
    /\ result.modules = << >>
    /\ modules_to_use = << >>
    /\ result.probes = << >>
    /\ result.removals = 0

\* a call on the shipped catalog with no argument at all ended with the
\* IOError
C12_Witness ==
  /\ calls > 0
  /\ catalog = "shipped"
  /\ features = None
  /\ scenario_directory = None
  /\ multi_stage = "None"
  /\ result.status = "IOError"
  /\ result.message = NeitherSpecifiedMessage

\* C13: a call with a scenario directory only whose features.csv cannot be
\* read ends fatally (SystemExit when the file cannot be opened) and never
\* goes on with empty or default features: no working list is built, no
\* removal made, no list returned.
C13_MissingFeaturesFileIsFatal ==
  (/\ calls > 0
   /\ features = None
   /\ scenario_directory # None
   /\ scenario_directory[1].features_csv.state # "readable") =>
    /\ result.status \in { "SystemExit", "KeyError" }
    /\ scenario_directory[1].features_csv.state \in { "absent", "unreadable" }
         => result.status = "SystemExit"
    /\ result.modules = << >>
    /\ modules_to_use = << >>
    /\ result.removals = 0

\* a call with a scenario directory without features.csv, and stage
\* directories that would keep every module of the multi-stage rule, ended
\* with SystemExit
C13_Witness ==
  /\ calls > 0
  /\ catalog = "shipped"
  /\ features = None
  /\ scenario_directory # None
  /\ scenario_directory[1].features_csv.state = "absent"
  /\ HasStages(scenario_directory)
  /\ multi_stage = "None"
  /\ result.status = "SystemExit"
  /\ result.message = FeaturesFileMessage

\* list l has no element twice
NoDuplicate(l) == Cardinality(Range(l)) = Len(l)

\* the ids the single-feature rules of catalog c list, in rule order
OptionalModuleList(c) ==
  Flatten([k \in 1..Len(c.optional) |-> c.optional[k].modules], 1)

\* C14: in the shipped catalog every id that an optional, shared or
\* cross-feature rule lists, and the module of the multi-stage rule, is an
\* element of all_modules_list().
C14_ShippedRulesWithinCanonical ==
  catalog = "shipped" =>
    LET c == Catalog(catalog)
    IN  /\ RuleModules(c) \subseteq Range(c.all_modules)
        /\ c.sentinel \in Range(c.all_modules)

\* a call on the shipped catalog removed the id of every rule and the
\* module of the multi-stage rule, one list.remove each, and returned
C14_Witness ==
  /\ Returned
  /\ catalog = "shipped"
  /\ Requested = {}
  /\ multi_stage = "False"
  /\ result.removals = Len(RuleModuleList(Catalog(catalog))) + 1

\* C16: in the shipped catalog all_modules_list() has no id twice, and no
\* id is listed under more than one single-feature rule nor twice within
\* one.
C16_ShippedCatalogDisjoint ==
  catalog = "shipped" =>
    LET c == Catalog(catalog)
    IN  /\ NoDuplicate(c.all_modules)
        /\ NoDuplicate(OptionalModuleList(c))

\* a call on the shipped catalog that requested one feature returned the
\* canonical list less the ids of the other single-feature rules, of the
\* cross-feature rules and of the multi-stage rule: no removal met an id
\* that another had taken
C16_Witness ==
  /\ Returned
  /\ catalog = "shipped"
  /\ Requested = { "transmission" }
  /\ multi_stage = "False"
  /\ LET c == Catalog(catalog)
         kept == { c.optional[k].modules :
                     k \in { j \in 1..Len(c.optional) :
                               c.optional[j].feature = "transmission" } }
     IN  /\ kept # {}
         /\ \A ms \in kept :
              /\ Range(ms) \subseteq Range(result.modules)
              /\ Len(result.modules) + result.removals
                   = Len(c.all_modules)

\* C17: a call that requests every feature some rule names, for a scenario
\* with stages, returns exactly all_modules_list().
C17_AllFeaturesKeepEverything ==
  (/\ calls > 0
   /\ HasRequested
   /\ EffectiveMultiStage
   /\ RuleFeatures(Catalog(catalog)) \subseteq Requested) =>
    /\ result.status = "returned"
    /\ result.modules = Catalog(catalog).all_modules
    /\ result.removals = 0

\* a call on the shipped catalog with every feature and multi_stage True
\* returned the 132 modules of all_modules_list()
C17_Witness ==
  /\ Returned
  /\ catalog = "shipped"
  /\ multi_stage = "True"
  /\ Requested = RuleFeatures(ShippedCatalog)
  /\ Cardinality(Requested) >= 15
  /\ result.modules = all_modules_list
  /\ Len(result.modules) = 132

\* some rule of catalog c, or its multi-stage rule, names an id that is not
\* in its canonical list
ReferencesUnlisted(c) ==
  ~ (RuleModules(c) \cup { c.sentinel } \subseteq Range(c.all_modules))

\* C15: with a catalog in which some rule references an id that is not in
\* the canonical list, no call produces a list, whatever features it
\* requests, those that satisfy the offending rule included: the catalog is
\* rejected before any removal is made.
C15_UnlistedRuleIdRejected ==
  (calls > 0 /\ ReferencesUnlisted(Catalog(catalog))) =>
    /\ result.status # "returned"
    /\ result.modules = << >>
    /\ result.removals = 0

\* the position, in the list Resolve returned, of the first id the package
\* cannot import; 0 when it can import each
FirstMissing ==
  LET bad == { i \in 1..Len(result.modules) :
                 result.modules[i] \in package.missing }
  IN  IF bad = {} THEN 0 ELSE CHOOSE i \in bad : \A j \in bad : i <= j

\* C18: a load_modules call on a list with an id that cannot be imported
\* stops at the first such id: it ends with SystemExit after printing an
\* error that names the id, import_module was called with no later id, and
\* no list, not even of the modules imported before, is returned.
C18_LoadFailsFast ==
  (load.status # "none" /\ FirstMissing > 0) =>
    /\ load.status = "SystemExit"
    /\ result.modules[FirstMissing] \in Range(load.message)
    /\ load.imports = SubSeq(result.modules, 1, FirstMissing)
    /\ load.loaded_modules = << >>
    /\ loaded_modules = << >>

\* a load of [m1, m2, m4, m6, m8] with m4 missing from the package ended
\* with SystemExit after importing m1 and m2, and named m4
C18_Witness ==
  /\ load.status = "SystemExit"
  /\ result.modules = << "m1", "m2", "m4", "m6", "m8" >>
  /\ package.missing = { "m4" }
  /\ load.imports = << "m1", "m2", "m4" >>
  /\ load.message = ImportErrorMessage("m4")

\* C19: in a run whose resolved list has an id that cannot be imported no
\* lifecycle function of any unit is ever invoked, those imported before
\* the failing id included; an invocation is made only in a run whose
\* load_modules call returned a unit for every id of the resolved list.
C19_NoPhaseAfterFailedLoad ==
  /\ (Returned /\ FirstMissing > 0) => invocations = << >>
  /\ load.status = "SystemExit" => (invocations = << >> /\ pc = "aborted")
  /\ invocations # << >> =>
       /\ load.status = "returned"
       /\ Len(loaded_modules) = Len(result.modules)

\* a run ended at a load that failed at the fourth of seven ids, in a
\* package where every module defines every lifecycle function, without
\* any invocation
C19_Witness ==
  /\ pc = "aborted"
  /\ load.status = "SystemExit"
  /\ Len(result.modules) = 7
  /\ Len(load.imports) = 4
  /\ package.lacking = {}
  /\ invocations = << >>
  /\ phase = 0

\* the ids of the units invoked in phase p of the run, in order
InvokedIn(p) ==
  LET made == SelectSeq(invocations, LAMBDA e : e.phase = p)
  IN  [k \in 1..Len(made) |-> made[k].unit]

\* the ids of the resolved list whose modules define the function of
\* phase p, in resolved order
CapableIn(p) ==
  SelectSeq(result.modules, LAMBDA m : p \in Capabilities(package, m))

\* C20: a RunPhase that completes has invoked exactly the units that
\* define the function of its phase, each once, in the order of the
\* resolved list; the units that do not define it are passed over, and the
\* units after them are invoked all the same.
C20_RunPhaseInvokesCapableInOrder ==
  \A k \in 1..phase : InvokedIn(RunPhases[k]) = CapableIn(RunPhases[k])

\* the first phase of a run completed, passing over m2, which does not
\* define its function, and invoking the units before and after it
C20_Witness ==
  /\ phase >= 1
  /\ result.modules = << "m1", "m2", "m4", "m6", "m8" >>
  /\ "AddStructure" \notin Capabilities(package, "m2")
  /\ InvokedIn("AddStructure") = << "m1", "m4", "m6", "m8" >>

\* the position of phase p in the run's sequence
PhaseIndex(p) == CHOOSE k \in 1..Len(RunPhases) : RunPhases[k] = p

\* C21: the phases of a run are never interleaved: an invocation of a
\* phase is never followed by an invocation of an earlier phase, and when
\* an invocation of a phase is made every earlier phase has invoked all
\* the units that define its function.
C21_PhasesNotInterleaved ==
  /\ \A i, j \in 1..Len(invocations) :
       i < j => PhaseIndex(invocations[i].phase)
                  <= PhaseIndex(invocations[j].phase)
  /\ \A j \in 1..Len(invocations) :
       \A k \in 1..(PhaseIndex(invocations[j].phase) - 1) :
         InvokedIn(RunPhases[k]) = CapableIn(RunPhases[k])

\* a run on seven units completed its second phase: the invocations of the
\* first phase, one per unit, are followed by those of the second
C21_Witness ==
  /\ phase >= 2
  /\ Len(result.modules) = 7
  /\ package.lacking = {}
  /\ Len(invocations) >= 14
  /\ invocations[7].phase = RunPhases[1]
  /\ invocations[8].phase = RunPhases[2]

\* list a is the beginning of list b
IsPrefix(a, b) == Len(a) <= Len(b) /\ a = SubSeq(b, 1, Len(a))

\* C22: the phase sequence of a run is monotone: each phase of the run's
\* sequence that was completed has invoked every unit that defines its
\* function exactly once (it was neither skipped nor entered again), only
\* the phase after those was begun, and only in a run that ended there,
\* and a run that completed went through every phase of its sequence.
C22_PhaseSequenceMonotone ==
  /\ phase \in 0..Len(RunPhases)
  /\ pc = "completed" => phase = Len(RunPhases)
  /\ \A k \in 1..Len(RunPhases) :
       LET p == RunPhases[k]
       IN  /\ k <= phase => InvokedIn(p) = CapableIn(p)
           /\ (k = phase + 1 /\ pc = "aborted") =>
                IsPrefix(InvokedIn(p), CapableIn(p))
           /\ (k > phase + 1 \/ (k = phase + 1 /\ pc # "aborted")) =>
                InvokedIn(p) = << >>

\* a run whose package has a unit without the function of the second
\* phase completed, each phase having invoked its capable units once
C22_Witness ==
  /\ pc = "completed"
  /\ phase = Len(RunPhases)
  /\ Len(result.modules) = 5
  /\ package.lacking = { "m4" }
  /\ package.lacked = { RunPhases[2] }
  /\ Len(invocations) = 5 * Len(RunPhases) - 1

\* C23: when the function of a unit raises in a phase the run is aborted:
\* the invocation that raised is the last invocation of the run, so no
\* later unit of the phase and no unit of a later phase is invoked, and
\* the function that raised is not invoked again.
C23_PhaseFailureAbortsRun ==
  \A i \in 1..Len(invocations) :
    invocations[i].raised =>
      /\ i = Len(invocations)
      /\ pc = "aborted"
      /\ phase = PhaseIndex(invocations[i].phase) - 1

\* a run on five units was aborted in its first phase, by the function of
\* the second unit, with units and phases still to come
C23_Witness ==
  /\ pc = "aborted"
  /\ Len(result.modules) = 5
  /\ package.lacking = {}
  /\ Len(invocations) = 2
  /\ invocations[2].raised
  /\ invocations[2].unit = "m2"
  /\ phase = 0

\* C29: a load_modules call in which every id is imported returns one unit
\* for each id of its argument, the i-th unit being the import of the i-th
\* id, so that the phases visit the units in resolved order.
C29_LoadKeepsOrder ==
  load.status = "returned" =>
    /\ Len(loaded_modules) = Len(result.modules)
    /\ load.imports = result.modules
    /\ \A i \in 1..Len(result.modules) :
         /\ loaded_modules[i].id = result.modules[i]
         /\ loaded_modules[i].capabilities
              = Capabilities(package, result.modules[i])
    /\ \A k \in 1..phase :
         InvokedIn(RunPhases[k])
           = Restrict(result.modules, Range(InvokedIn(RunPhases[k])))

\* the load of [m1, m2, m3, m4, m5, m6, m8] returned seven units in that
\* order, and a phase has visited them
C29_Witness ==
  /\ load.status = "returned"
  /\ phase >= 1
  /\ result.modules = << "m1", "m2", "m3", "m4", "m5", "m6", "m8" >>
  /\ [i \in 1..7 |-> loaded_modules[i].id] = result.modules
  /\ package.lacking = {}

\* C25: once the previous_timepoint parameter is built, for every horizon
\* h with a circular or a linear boundary, whatever the number of horizons,
\* previous_timepoint of h's first timepoint is h's last timepoint when h
\* is circular and None when h is linear, and previous_timepoint of every
\* timepoint that is not the first of its horizon is the timepoint before.
C25_PreviousTimepointPerHorizon ==
  previous_timepoint # None =>
    \A tmp \in TIMEPOINTS(temporal) :
      LET h == horizon(temporal, tmp)
          r == previous_timepoint[tmp]
      IN  IF tmp = first_horizon_timepoint(temporal, h)
          THEN /\ temporal.boundary[h] = "circular" =>
                    /\ r.exception = ""
                    /\ r.value = Some(last_horizon_timepoint(temporal, h))
               /\ temporal.boundary[h] = "linear" =>
                    /\ r.exception = ""
                    /\ r.value = None
          ELSE r = [exception |-> "", value |-> Some(tmp - 1)]

\* the timepoints visited from tmp on: those after it on its horizon and,
\* on a circular horizon, those from the first of the horizon up to tmp
WalkFrom(mod, tmp) ==
  LET h == horizon(mod, tmp)
      f == first_horizon_timepoint(mod, h)
      l == last_horizon_timepoint(mod, h)
  IN  IF mod.boundary[h] = "circular"
      THEN [j \in 1..(l - f + 1) |->
              IF tmp + j <= l THEN tmp + j ELSE tmp + j - (l - f + 1)]
      ELSE [j \in 1..(l - tmp) |-> tmp + j]

\* the hours of tmp and of the first j - 1 timepoints of walk W
RECURSIVE HoursBefore(_, _, _, _)
HoursBefore(mod, tmp, W, j) ==
  IF j <= 1 THEN mod.hrs_in_tmp[tmp]
  ELSE HoursBefore(mod, tmp, W, j - 1) + mod.hrs_in_tmp[W[j - 1]]

\* the arrival timepoint of a departure at tmp: none from the last
\* timepoint of a linear or linked horizon; else the first timepoint of the
\* walk that the travel time is over by, or the last of the walk
ExpectedArrival(mod, tmp, travel_time_hours) ==
  LET h == horizon(mod, tmp)
      W == WalkFrom(mod, tmp)
      reached == { j \in 1..Len(W) :
                     HoursBefore(mod, tmp, W, j) >= travel_time_hours }
  IN  IF /\ tmp = last_horizon_timepoint(mod, h)
         /\ mod.boundary[h] \in { "linear", "linked" }
      THEN None
      ELSE IF reached = {} THEN Some(W[Len(W)])
      ELSE Some(W[CHOOSE j \in reached : \A o \in reached : j <= o])

C24_CatalogNeverMutated ==
  [][/\ catalog' = catalog
     /\ NewModulesToUse(Catalog(catalog))' = NewModulesToUse(Catalog(catalog))
     /\ Catalog(catalog)'.optional = Catalog(catalog).optional
     /\ Catalog(catalog)'.shared = Catalog(catalog).shared
     /\ Catalog(catalog)'.cross = Catalog(catalog).cross
     /\ result'.status = "returned" =>
          Len(modules_to_use') + result'.removals
            = Len(NewModulesToUse(Catalog(catalog))')]_vars

\* after a first call that returned with modules removed and a later call
\* that failed on a removal, all_modules_list() still gives the ten modules
C24_Witness ==
  /\ calls >= 2
  /\ catalog = "cross_overlap"
  /\ first[1].result.status = "returned"
  /\ first[1].result.removals > 0
  /\ result.status = "ValueError"
  /\ result.removals > 1
  /\ Len(NewModulesToUse(Catalog(catalog))) = 10

\* some id of catalog c is listed under a single-feature rule and under a
\* shared or cross-feature rule that the requested features both leave
\* unsatisfied
BothUnsatisfied(c, requested) ==
  \E m \in Range(UnsatisfiedOptional(c, requested)) :
    \/ m \in Range(UnsatisfiedShared(c, requested))
    \/ m \in Range(UnsatisfiedCross(c, requested))

\* the catalogs in which an id is listed under a single-feature rule and
\* also under a shared or a cross-feature rule
OverlapCatalogNames == { "shared_overlap", "cross_overlap" }

\* C26 as stated: with a catalog in which an id is listed under a
\* single-feature rule and also under a shared or cross-feature rule,
\* every call with a requested-feature list returns a list, whatever the
\* features, those that leave both rules unsatisfied included.
C26_OverlapAlwaysResolves ==
  (calls > 0 /\ HasRequested /\ catalog \in OverlapCatalogNames) =>
    result.status = "returned"

\* C26 amended: with such a catalog a call returns a list exactly when the
\* requested features leave at most one of the two rules unsatisfied; when
\* they leave both unsatisfied the second removal of the id raises
\* ValueError and no list is returned.
C26_OverlapResolvesUnlessBothUnsatisfied ==
  (calls > 0 /\ HasRequested /\ catalog \in OverlapCatalogNames) =>
    IF BothUnsatisfied(Catalog(catalog), Requested)
    THEN result.status = "ValueError" /\ result.modules = << >>
    ELSE result.status = "returned"

\* with m7 under B and under (A, B), a call requesting B alone returned:
\* only the cross-feature rule removed m7
C26_Witness ==
  /\ Returned
  /\ catalog = "cross_overlap"
  /\ Requested = { "B" }
  /\ multi_stage = "True"
  /\ result.modules = << "m1", "m2", "m4", "m6", "m8", "m10" >>

\* C27: on the shipped catalog no removal ever targets an id that is not,
\* or no longer, in the working list: the module of the multi-stage rule
\* and the ids of all the rules are pairwise different ids of
\* all_modules_list(), the removals of any call are some of these, each
\* once, and every call with a requested-feature list returns.
C27_ShippedNeverFails ==
  catalog = "shipped" =>
    LET c == Catalog(catalog)
        every == << c.sentinel >> \o RuleModuleList(c)
    IN  /\ NoDuplicate(every)
        /\ NoDuplicate(c.all_modules)
        /\ Range(every) \subseteq Range(c.all_modules)
        /\ (calls > 0 /\ HasRequested) =>
             /\ result.status = "returned"
             /\ RemovalTargets = Restrict(every, Range(RemovalTargets))
             /\ result.removals = Len(RemovalTargets)

\* a call on the shipped catalog that left transmission out, so that the
\* transmission rule and the cross-feature rules that need it all removed
\* their modules, returned
C27_Witness ==
  /\ Returned
  /\ catalog = "shipped"
  /\ multi_stage = "False"
  /\ Requested
       = (RuleFeatures(ShippedCatalog) \cup { UnknownFeature })
           \ { "transmission" }
  /\ result.removals > 10
  /\ "transmission.operations.operations" \notin Range(result.modules)

\* the features an argument list has the call resolve against
RequestedOf(inp) ==
  IF inp.features # None THEN inp.features[1]
  ELSE inp.scenario_directory[1].features_csv.features

\* C28: for one catalog and one multi_stage value, when a call requesting
\* F and a call requesting G, with F a subset of G, both return, every
\* module of the list for F is in the list for G, and the list for F is
\* the list for G with the other modules deleted.
C28_MonotoneInFeatures ==
  (/\ calls >= 2
   /\ first[1].result.status = "returned"
   /\ result.status = "returned"
   /\ first[1].input.multi_stage = multi_stage
   /\ RequestedOf(first[1].input) \subseteq Requested) =>
    /\ Range(first[1].result.modules) \subseteq Range(result.modules)
    /\ first[1].result.modules
         = Restrict(result.modules, Range(first[1].result.modules))

\* a call requesting nothing returned five modules and a later call
\* requesting A, with the same multi_stage, returned seven
C28_Witness ==
  /\ calls >= 2
  /\ catalog = "scenario"
  /\ first[1].result.status = "returned"
  /\ result.status = "returned"
  /\ multi_stage = "False"
  /\ first[1].input.multi_stage = "False"
  /\ RequestedOf(first[1].input) = {}
  /\ Requested = { "A" }
  /\ first[1].result.modules = << "m1", "m2", "m4", "m6", "m8" >>
  /\ result.modules = << "m1", "m2", "m3", "m4", "m5", "m6", "m8" >>

====
